---- MODULE Spec2Model ----
(***************************************************************************)
(* Model of the TimeSync engine (class TimeSync): subscribers are grouped  *)
(* into buckets keyed by maxUpdateIntervalMs, one timer is armed through   *)
(* the constructor's setTimeout/clearTimeout primitives, and tick()        *)
(* captures one snapshot and dispatches it to every callback.              *)
(*                                                                         *)
(* A JavaScript Map/Set iterates in insertion order over its live data:    *)
(* an entry deleted before the iterator reaches it is skipped, an entry    *)
(* added before the iterator finishes is visited.  A Map/Set is therefore  *)
(* a sequence, and an iterator is the count of entries already consumed,   *)
(* decremented when one of the consumed entries is deleted.                *)
(*                                                                         *)
(* Time is abstracted: a live timer may fire at any moment, whatever delay *)
(* it was armed with.  The engine runs on one thread, so while tick is     *)
(* dispatching the only engine calls are those its callbacks make.  When   *)
(* setTimeout/clearTimeout are injected they keep their own timer          *)
(* registry, which window.clearTimeout does not reach.                     *)
(***************************************************************************)
EXTENDS Naturals, Integers, Sequences, FiniteSets, TLC

\* ---------------------------------------------------------------- bounds
NumCallbacks == 2
MaxSubscribes == 3
MaxTimerId == 3
MaxReentrant == 1
MaxRenders == 1
MaxConsumers == 2

\* ------------------------------------------------------- program values
Infinity == 1000000
Undefined == 0 - 1

Callbacks == 1..NumCallbacks
Intervals == {1000, 5000, Infinity}

VARIABLES
  injected,       \* TRUE iff setTimeout/clearTimeout were passed to the constructor
  subscriptions,  \* #subscriptions: Map<interval, Set>, as a sequence of entries
  sets,           \* the Set objects ever created by subscribe, by identity
  handles,        \* the unsubscribe closures returned so far
  timers,         \* live timers in the registry of #setTimeout
  timerSeq,       \* last timer id handed out by #setTimeout
  nextTickId,     \* #nextTickId
  nextTickMs,     \* #nextTickMs
  latestTime,     \* #latestTime
  clock,          \* number of snapshots dayjs() has produced
  pc,             \* "idle", or "dispatch" while tick() is on the stack
  newTime,        \* tick's local newTime
  mapIdx,         \* entries of #subscriptions.values() consumed by tick's outer loop
  curSet,         \* the subGroup tick's inner loop iterates (0: none)
  setIdx,         \* entries of subGroup consumed by tick's inner loop
  delivered,      \* log of the callback invocations of the current/last tick
  startActive,    \* handles subscribed and not unsubscribed when the tick started
  cleaned,        \* cleanup() returned and no schedule recomputation ran since
  lastOp,         \* name of the last operation performed
  provider,       \* the provider component that owns the engine, if any
  hook            \* outcome of the last render of a consumer hook

vars == <<injected, subscriptions, sets, handles, timers, timerSeq, nextTickId,
          nextTickMs, latestTime, clock, pc, newTime, mapIdx, curSet, setIdx,
          delivered, startActive, cleaned, lastOp, provider, hook>>

\* ------------------------------------------------------------- helpers
RemoveAt(s, p) == [k \in 1..(Len(s) - 1) |-> IF k < p THEN s[k] ELSE s[k + 1]]

IndexOf(s, x) ==
  IF \E k \in 1..Len(s) : s[k] = x
    THEN CHOOSE k \in 1..Len(s) : s[k] = x
    ELSE 0

KeyIndex(m, interval) ==
  IF \E k \in 1..Len(m) : m[k].interval = interval
    THEN CHOOSE k \in 1..Len(m) : m[k].interval = interval
    ELSE 0

Keys(m) == {m[k].interval : k \in 1..Len(m)}

SetMin(S) == CHOOSE x \in S : \A y \in S : x <= y

\* The engine's mutable state as one record, so that operations compose
\* (a callback calls subscribe/unsubscribe/cleanup from inside tick).
Eng ==
  [subscriptions |-> subscriptions, sets |-> sets, handles |-> handles,
   timers |-> timers, timerSeq |-> timerSeq, nextTickId |-> nextTickId,
   nextTickMs |-> nextTickMs, mapIdx |-> mapIdx, curSet |-> curSet,
   setIdx |-> setIdx, cleaned |-> cleaned]

Install(e) ==
  /\ subscriptions' = e.subscriptions
  /\ sets' = e.sets
  /\ handles' = e.handles
  /\ timers' = e.timers
  /\ timerSeq' = e.timerSeq
  /\ nextTickId' = e.nextTickId
  /\ nextTickMs' = e.nextTickMs
  /\ mapIdx' = e.mapIdx
  /\ curSet' = e.curSet
  /\ setIdx' = e.setIdx
  /\ cleaned' = e.cleaned

\* ------------------------------------------------------ timer primitives
\* this.#clearTimeout(id): cancels in the registry this.#setTimeout arms in.
\* Canceling undefined, a fired or a canceled id does nothing.
ClearTimeout(e, id) ==
  [e EXCEPT !.timers = {t \in e.timers : t.id # id}]

\* window.clearTimeout(id): the ambient registry.  With injected primitives
\* the engine's timers live in the injected registry, which it does not touch.
WindowClearTimeout(e, id) ==
  IF injected THEN e ELSE [e EXCEPT !.timers = {t \in e.timers : t.id # id}]

\* this.#setTimeout(this.tick, ms): a fresh id, live until fired or canceled.
SetTimeout(e, ms) ==
  [e EXCEPT !.timerSeq = e.timerSeq + 1,
            !.timers = e.timers \cup {[id |-> e.timerSeq + 1, delay |-> ms]}]

\* ------------------------------------------------------ scheduleNextTick
EarliestPossibleUpdateMs(e) == SetMin(Keys(e.subscriptions) \cup {Infinity})

ArmDelay(e) == Infinity

\* a scheduleNextTick that stays off once cleanup() was called
scheduleNextTickUnlessCleaned(e) ==
  IF e.cleaned
    THEN e
    ELSE LET c == ClearTimeout(e, e.nextTickId)
         IN IF EarliestPossibleUpdateMs(c) = Infinity
              THEN c
              ELSE LET a == SetTimeout(c, ArmDelay(c))
                   IN [a EXCEPT !.nextTickMs = ArmDelay(c), !.nextTickId = a.timerSeq]

scheduleNextTick(e) ==
  LET c == [ClearTimeout(e, e.nextTickId) EXCEPT !.cleaned = FALSE]
  IN IF EarliestPossibleUpdateMs(c) = Infinity
       THEN c
       ELSE LET a == SetTimeout(c, ArmDelay(c))
            IN [a EXCEPT !.nextTickMs = ArmDelay(c), !.nextTickId = a.timerSeq]

\* ------------------------------------------------------------- subscribe
SetAdd(s, cb) == IF IndexOf(s, cb) = 0 THEN Append(s, cb) ELSE s

subscribe(e, cb, interval) ==
  LET has == KeyIndex(e.subscriptions, interval) # 0
      subGroup == IF has
                    THEN e.subscriptions[KeyIndex(e.subscriptions, interval)].set
                    ELSE Len(e.handles) + 1
      e1 == IF has
              THEN e
              ELSE scheduleNextTick(
                     [e EXCEPT !.subscriptions =
                        Append(e.subscriptions,
                               [interval |-> interval, set |-> subGroup])])
  IN [e1 EXCEPT !.sets[subGroup] = SetAdd(e1.sets[subGroup], cb),
                !.handles = Append(e1.handles,
                                   [callback |-> cb, interval |-> interval,
                                    set |-> subGroup, called |-> FALSE])]

\* ----------------------------------------- the returned unsubscribe closure
\* a delete that takes effect only once no tick is dispatching
SetDeleteDeferred(e, s, cb) ==
  IF pc = "dispatch"
    THEN e
    ELSE [e EXCEPT !.sets[s] = SelectSeq(e.sets[s], LAMBDA x : x # cb)]

\* subGroup.delete(callback), seen by a live iterator of that Set
SetDelete(e, s, cb) ==
  LET p == IndexOf(e.sets[s], cb)
  IN IF p = 0
       THEN e
       ELSE [e EXCEPT !.sets[s] = RemoveAt(e.sets[s], p),
                      !.setIdx = IF pc = "dispatch" /\ e.curSet = s /\ p <= e.setIdx
                                   THEN e.setIdx - 1 ELSE e.setIdx]

\* this.#subscriptions.delete(interval), seen by a live iterator of the Map
MapDelete(e, interval) ==
  LET p == KeyIndex(e.subscriptions, interval)
  IN IF p = 0
       THEN e
       ELSE [e EXCEPT !.subscriptions = RemoveAt(e.subscriptions, p),
                      !.mapIdx = IF pc = "dispatch" /\ p <= e.mapIdx
                                   THEN e.mapIdx - 1 ELSE e.mapIdx]

BumpCalls(e, h) == [e EXCEPT !.handles[h].called = TRUE]

unsubscribe(e, h) ==
  LET r == e.handles[h]
      d == BumpCalls(SetDelete(e, r.set, r.callback), h)
  IN IF Len(d.sets[r.set]) = 0
       THEN scheduleNextTick(MapDelete(d, r.interval))
       ELSE d

\* --------------------------------------------------------------- cleanup
\* a cleanup that also drops every bucket
cleanupDropsBuckets(e) ==
  [e EXCEPT !.subscriptions = <<>>, !.nextTickId = Undefined, !.cleaned = TRUE,
            !.timers = {t \in e.timers : t.id # e.nextTickId}]

cleanup(e) ==
  IF e.nextTickId # Undefined
    THEN [WindowClearTimeout(e, e.nextTickId) EXCEPT
            !.nextTickId = Undefined, !.cleaned = TRUE]
    ELSE [e EXCEPT !.cleaned = TRUE]

\* -------------------------------------------------------------- getValue
\* a getValue that reads tick's local, which is gone once tick has returned
getValueOfTick == newTime

getValue == latestTime

\* getValue(requestId, isPaused) of the engine the pausable hook reads
getValueOf(requestId, isPaused) == latestTime

\* ------------------------------------------------------------------ Init
Init ==
  /\ injected \in BOOLEAN
  /\ subscriptions = <<>>
  /\ sets = [s \in 1..MaxSubscribes |-> <<>>]
  /\ handles = <<>>
  /\ timers = {}
  /\ timerSeq = 0
  /\ nextTickId = Undefined
  /\ nextTickMs = Undefined
  /\ latestTime = 0
  /\ clock = 0
  /\ pc = "idle"
  /\ newTime = 0
  /\ mapIdx = 0
  /\ curSet = 0
  /\ setIdx = 0
  /\ delivered = <<>>
  /\ startActive = {}
  /\ cleaned = FALSE
  /\ lastOp = "new"
  /\ provider = [kind |-> "none", phase |-> "none", renders |-> 0, cleanups |-> 0]
  /\ hook = [name |-> "none", attached |-> FALSE, threw |-> FALSE, value |-> Undefined]

\* ------------------------------------------------- top-level operations
Fits(e) == e.timerSeq <= MaxTimerId

\* The log of the last tick is dropped by the next operation.
DropLog == pc' = pc /\ newTime' = newTime /\ delivered' = <<>> /\ startActive' = {}

Subscribe(cb, interval) ==
  /\ pc = "idle"
  /\ Len(handles) < MaxSubscribes
  /\ Fits(subscribe(Eng, cb, interval))
  /\ Install(subscribe(Eng, cb, interval))
  /\ lastOp' = "subscribe"
  /\ DropLog
  /\ UNCHANGED <<provider, hook, injected, latestTime, clock>>

Unsubscribe(h) ==
  /\ pc = "idle"
  /\ h \in 1..Len(handles)
  /\ Fits(unsubscribe(Eng, h))
  /\ Install(unsubscribe(Eng, h))
  /\ lastOp' = "unsubscribe"
  /\ DropLog
  /\ UNCHANGED <<provider, hook, injected, latestTime, clock>>

Cleanup ==
  /\ pc = "idle"
  /\ Install(cleanup(Eng))
  /\ lastOp' = "cleanup"
  /\ DropLog
  /\ UNCHANGED <<provider, hook, injected, latestTime, clock>>

GetValue ==
  /\ pc = "idle"
  /\ lastOp' = "getValue"
  /\ DropLog
  /\ UNCHANGED <<provider, hook, injected, subscriptions, sets, handles, timers, timerSeq,
                 nextTickId, nextTickMs, latestTime, clock, mapIdx,
                 curSet, setIdx, cleaned>>

\* ------------------------------------------------------------------ tick
Active(hs) == {h \in 1..Len(hs) : ~hs[h].called}

\* const newTime = dayjs(): a snapshot no earlier call returned
CaptureTime == clock + 1

\* a tick that leaves #latestTime alone until dispatch is over
tickStoreSkipped(new) == latestTime

\* this.#latestTime = newTime, before the loops
tickStore(new) == new

\* The timer t fires: the registry drops it and calls tick, which captures
\* the snapshot and stores it before the loops start.
TimerFire(t) ==
  /\ pc = "idle"
  /\ t \in timers
  /\ timers' = timers \ {t}
  /\ clock' = CaptureTime
  /\ newTime' = CaptureTime
  /\ latestTime' = tickStore(CaptureTime)
  /\ pc' = "dispatch"
  /\ mapIdx' = 0
  /\ curSet' = 0
  /\ setIdx' = 0
  /\ delivered' = <<>>
  /\ startActive' = Active(handles)
  /\ lastOp' = "fire"
  /\ UNCHANGED <<provider, hook, injected, subscriptions, sets, handles, timerSeq, nextTickId,
                 nextTickMs, cleaned>>

\* an inner loop over the members that were subscribed when the tick started
InnerDoneOverStartMembers ==
  IF curSet = 0
    THEN TRUE
    ELSE setIdx >= Cardinality(
           {p \in 1..Len(sets[curSet]) :
              \E h \in startActive : /\ handles[h].set = curSet
                                     /\ handles[h].callback = sets[curSet][p]})

InnerDone == IF curSet = 0 THEN TRUE ELSE setIdx >= Len(sets[curSet])

\* for (const subGroup of this.#subscriptions.values()): next bucket
TickNextGroup ==
  /\ pc = "dispatch"
  /\ InnerDone
  /\ mapIdx < Len(subscriptions)
  /\ mapIdx' = mapIdx + 1
  /\ curSet' = subscriptions[mapIdx + 1].set
  /\ setIdx' = 0
  /\ lastOp' = "group"
  /\ UNCHANGED <<provider, hook, injected, subscriptions, sets, handles, timers, timerSeq,
                 nextTickId, nextTickMs, latestTime, clock, pc, newTime,
                 delivered, startActive, cleaned>>

\* both loops are exhausted: tick returns
TickReturn ==
  /\ pc = "dispatch"
  /\ InnerDone
  /\ mapIdx >= Len(subscriptions)
  /\ pc' = "idle"
  /\ curSet' = 0
  /\ setIdx' = 0
  /\ mapIdx' = 0
  /\ newTime' = 0
  /\ lastOp' = "return"
  /\ UNCHANGED <<provider, hook, injected, subscriptions, sets, handles, timers, timerSeq,
                 nextTickId, nextTickMs, latestTime, clock,
                 delivered, startActive, cleaned>>

\* What a callback does with the engine while it runs: nothing, or one call.
Reentered == Cardinality({k \in 1..Len(delivered) : delivered[k].op # "none"})

CallbackOps ==
  {[name |-> "none", h |-> 0, cb |-> 0, interval |-> 0]}
  \cup (IF Reentered < MaxReentrant
          THEN {[name |-> "cleanup", h |-> 0, cb |-> 0, interval |-> 0]}
               \cup {[name |-> "unsubscribe", h |-> h, cb |-> 0, interval |-> 0] :
                       h \in 1..Len(handles)}
               \cup {[name |-> "subscribe", h |-> 0, cb |-> c, interval |-> i] :
                       c \in Callbacks, i \in (IF Len(handles) < MaxSubscribes
                                                 THEN Intervals ELSE {})}
          ELSE {})

ApplyOp(e, op) ==
  CASE op.name = "unsubscribe" -> unsubscribe(e, op.h)
    [] op.name = "subscribe" -> subscribe(e, op.cb, op.interval)
    [] op.name = "cleanup" -> cleanup(e)
    [] OTHER -> e

\* an unwinding that takes the bucket of the failing callback with it
AfterCallbackDropsBucket(e, throws) ==
  IF throws
    THEN [e EXCEPT !.mapIdx = 0, !.curSet = 0, !.setIdx = 0,
                   !.subscriptions = SelectSeq(e.subscriptions,
                                               LAMBDA b : b.set # e.curSet)]
    ELSE e

\* An uncaught error in a callback unwinds tick: both loops are abandoned.
AfterCallback(e, throws) ==
  IF throws THEN [e EXCEPT !.mapIdx = 0, !.curSet = 0, !.setIdx = 0] ELSE e

\* callback(newTime) for the next callback of subGroup; the callback reads
\* getValue(), may call one engine operation, and returns or throws.
TickCallback(op, throws) ==
  /\ pc = "dispatch"
  /\ ~InnerDone
  /\ LET cb == sets[curSet][setIdx + 1]
         e0 == [Eng EXCEPT !.setIdx = setIdx + 1]
         e1 == ApplyOp(e0, op)
     IN /\ Fits(e1)
        /\ Install(AfterCallback(e1, throws))
        /\ delivered' = Append(delivered,
                               [cb |-> cb, set |-> curSet, arg |-> newTime,
                                seen |-> getValue, op |-> op.name, h |-> op.h,
                                threw |-> throws])
  /\ pc' = IF throws THEN "idle" ELSE "dispatch"
  /\ newTime' = IF throws THEN 0 ELSE newTime
  /\ lastOp' = IF throws THEN "throw" ELSE "callback"
  /\ UNCHANGED <<provider, hook, injected, latestTime, clock, startActive>>

Next ==
  \/ \E cb \in Callbacks, i \in Intervals : Subscribe(cb, i)
  \/ \E h \in 1..MaxSubscribes : Unsubscribe(h)
  \/ Cleanup
  \/ GetValue
  \/ \E t \in timers : TimerFire(t)
  \/ TickNextGroup
  \/ TickReturn
  \/ \E op \in CallbackOps, throws \in BOOLEAN : TickCallback(op, throws)

Spec == Init /\ [][Next]_vars

\* ------------------------------------------------------ React bindings
\* TimeSyncProvider (react-time-sync/useTimeSync.tsx) and the older
\* TimeProvider create the engine in a useState initializer and register one
\* effect whose dependency is the engine reference.  React runs an effect
\* after the first commit (children's effects first), runs it again only
\* when a dependency changed, and runs the destructor the effect returned
\* when the component unmounts.
ProviderKinds == {"TimeSyncProvider", "TimeProvider"}

\* Does the effect body itself call cleanup()?
\*   TimeSyncProvider: useEffect(() => { return () => timeSync.cleanup(); })
\*   TimeProvider:     useEffect(() => { return manager.cleanup(); })
EffectCallsCleanup(kind) == kind = "TimeProvider"

\* Is the value the effect returns a destructor that calls cleanup()?
\* TimeProvider returns the result of cleanup(), which is undefined.
DestructorCallsCleanup(kind) == kind = "TimeSyncProvider"

\* First render: useState(() => createTimeSync(initialTime)).
ProviderRender(kind) ==
  /\ pc = "idle"
  /\ provider.phase = "none"
  /\ provider' = [provider EXCEPT !.kind = kind, !.phase = "rendered"]
  /\ lastOp' = "render"
  /\ DropLog
  /\ UNCHANGED <<hook, injected, subscriptions, sets, handles, timers, timerSeq,
                 nextTickId, nextTickMs, latestTime, clock, mapIdx, curSet,
                 setIdx, cleaned>>

\* The effect runs after the first commit.
ProviderEffect ==
  /\ pc = "idle"
  /\ provider.phase = "rendered"
  /\ IF EffectCallsCleanup(provider.kind)
       THEN /\ Install(cleanup(Eng))
            /\ provider' = [provider EXCEPT !.phase = "mounted",
                                            !.cleanups = provider.cleanups + 1]
       ELSE /\ Install(Eng)
            /\ provider' = [provider EXCEPT !.phase = "mounted"]
  /\ lastOp' = "effect"
  /\ DropLog
  /\ UNCHANGED <<hook, injected, latestTime, clock>>

\* A re-render: useState returns the same engine, so the dependency array
\* is unchanged and the effect is not run again.
ProviderRerender ==
  /\ pc = "idle"
  /\ provider.phase = "mounted"
  /\ provider.renders < MaxRenders
  /\ provider' = [provider EXCEPT !.renders = provider.renders + 1]
  /\ lastOp' = "rerender"
  /\ DropLog
  /\ UNCHANGED <<hook, injected, subscriptions, sets, handles, timers, timerSeq,
                 nextTickId, nextTickMs, latestTime, clock, mapIdx, curSet,
                 setIdx, cleaned>>

\* Unmount: React runs the destructor the effect returned, if any.
ProviderUnmount ==
  /\ pc = "idle"
  /\ provider.phase = "mounted"
  /\ IF DestructorCallsCleanup(provider.kind)
       THEN /\ Install(cleanup(Eng))
            /\ provider' = [provider EXCEPT !.phase = "unmounted",
                                            !.cleanups = provider.cleanups + 1]
       ELSE /\ Install(Eng)
            /\ provider' = [provider EXCEPT !.phase = "unmounted"]
  /\ lastOp' = "unmount"
  /\ DropLog
  /\ UNCHANGED <<hook, injected, latestTime, clock>>

\* useContext outside a provider yields the context's default value, null.
Null == 0 - 2
\* the placeholder <span> rendered for the server snapshot
Placeholder == 0 - 3

\* a useTimeSync that renders the placeholder when no engine is attached
useTimeSyncLenient(sync, server) ==
  IF sync = Null \/ server
    THEN [threw |-> FALSE, value |-> Placeholder]
    ELSE [threw |-> FALSE, value |-> getValue]

\* useTimeSync(config): throws while rendering when either context is null;
\* otherwise the server snapshot (null) renders the placeholder and the
\* client snapshot is sync.getValue().
useTimeSync(sync, server) ==
  IF sync = Null
    THEN [threw |-> TRUE, value |-> Undefined]
    ELSE IF server
      THEN [threw |-> FALSE, value |-> Placeholder]
      ELSE [threw |-> FALSE, value |-> getValue]

\* useTime(config) of the older binding: same check, no server snapshot.
useTime(manager) ==
  IF manager = Null
    THEN [threw |-> TRUE, value |-> Undefined]
    ELSE [threw |-> FALSE, value |-> getValue]

\* The context value a component sees: the engine of the enclosing provider.
Context(attached) == IF attached THEN 1 ELSE Null

\* A component calling a consumer hook renders, inside the provider's subtree
\* (attached, possible only while the provider is rendered) or outside it.
HookRender(name, attached, server) ==
  /\ pc = "idle"
  /\ attached => /\ provider.phase \in {"rendered", "mounted"}
                 /\ (name = "useTime") = (provider.kind = "TimeProvider")
  /\ LET r == IF name = "useTimeSync"
                THEN useTimeSync(Context(attached), server)
                ELSE useTime(Context(attached))
     IN hook' = [name |-> name, attached |-> attached,
                 threw |-> r.threw, value |-> r.value]
  /\ lastOp' = "hook"
  /\ DropLog
  /\ UNCHANGED <<provider, injected, subscriptions, sets, handles, timers,
                 timerSeq, nextTickId, nextTickMs, latestTime, clock, mapIdx,
                 curSet, setIdx, cleaned>>

\* notifyReact, the callback the hooks subscribe, only schedules a render.
NotifyReact == [name |-> "none", h |-> 0, cb |-> 0, interval |-> 0]

\* The engine as the bindings drive it: consumers subscribe in their effects
\* (which run before the provider's) and unsubscribe when they unmount.
ProviderNext ==
  \/ \E kind \in ProviderKinds : ProviderRender(kind)
  \/ ProviderEffect
  \/ ProviderRerender
  \/ ProviderUnmount
  \/ \E name \in {"useTimeSync", "useTime"}, attached \in BOOLEAN, server \in BOOLEAN :
       HookRender(name, attached, server)
  \/ \E cb \in Callbacks, i \in Intervals :
       /\ provider.phase \in {"rendered", "mounted"}
       /\ Len(handles) < MaxConsumers
       /\ Subscribe(cb, i)
  \/ \E h \in 1..MaxSubscribes : provider.phase # "none" /\ Unsubscribe(h)
  \/ \E t \in timers : TimerFire(t)
  \/ TickNextGroup
  \/ TickReturn
  \/ TickCallback(NotifyReact, FALSE)

ProviderSpec == Init /\ [][ProviderNext]_vars

\* ============================================================== claims

\* handle h is the registration behind the k-th invocation of the tick
Behind(h, k) ==
  /\ handles[h].callback = delivered[k].cb
  /\ handles[h].set = delivered[k].set

\* how many invocations of the current/last tick notified registration h
Notified(h) == Cardinality({k \in 1..Len(delivered) : Behind(h, k)})

TickOver == lastOp \in {"return", "throw"}

UnsubOp(h) == [name |-> "unsubscribe", h |-> h, cb |-> 0, interval |-> 0]

\* the step invokes the unsubscribe closure h, at top level or from a callback
UnsubscribeStep(h) ==
  Unsubscribe(h) \/ \E throws \in BOOLEAN : TickCallback(UnsubOp(h), throws)

\* C1: invoking an unsubscribe function a second or later time leaves the
\* bucket map and every bucket's membership unchanged.
C1_RepeatedUnsubscribeKeepsBuckets ==
  [][\A h \in 1..Len(handles) :
       (handles[h].called /\ UnsubscribeStep(h))
         => (subscriptions' = subscriptions /\ sets' = sets)]_vars

\* C2: the keys of the subscriptions map are exactly the intervals requested
\* by at least one subscriber that subscribed and has not unsubscribed.
C2_BucketsAreLiveIntervals ==
  Keys(subscriptions) = {handles[h].interval : h \in Active(handles)}

\* C3: at most one timer armed by the engine is live.
C3_AtMostOneLiveTimer == Cardinality(timers) <= 1

\* C4: after cleanup() has returned, and until a subscribe or unsubscribe
\* recomputes the schedule, no tick fires.
C4_NoTickAfterCleanup ==
  [][cleaned => ~(\E t \in timers : TimerFire(t))]_vars

\* C5: when a tick is over, every subscriber that was active when it started
\* and was not unsubscribed during it has been notified exactly once in it.
C5_EveryActiveSubscriberNotifiedOnce ==
  TickOver =>
    \A h \in startActive : ~handles[h].called => Notified(h) = 1

\* C6: a tick captures one new snapshot and stores it as the current value
\* before the first callback runs; every callback of the tick receives that
\* snapshot, and getValue() called inside a callback returns it.
C6_OneSnapshotPerTick ==
  /\ latestTime = clock
  /\ pc = "dispatch" => latestTime = newTime
  /\ \A k \in 1..Len(delivered) :
        delivered[k].arg = latestTime /\ delivered[k].seen = delivered[k].arg

\* C6 witness: in the second tick, callbacks of two different buckets have run
C6_Witness ==
  /\ pc = "dispatch"
  /\ clock = 2
  /\ \E j, k \in 1..Len(delivered) :
        delivered[j].set # delivered[k].set /\ delivered[k].arg = 2

\* the k-th invocation called the unsubscribe closure of its own registration
SelfUnsub(k) ==
  /\ delivered[k].op = "unsubscribe"
  /\ Behind(delivered[k].h, k)

\* C7: in a tick where a subscriber unsubscribed itself from inside its
\* callback, dispatch does not fail, every other subscriber active at the
\* start of the tick is notified exactly once, and no invocation of any tick
\* goes to a registration that was unsubscribed before the tick started.
C7_SelfUnsubscribeDuringTick ==
  /\ (TickOver /\ \E k \in 1..Len(delivered) : SelfUnsub(k)) =>
        /\ lastOp # "throw"
        /\ \A h \in startActive : ~handles[h].called => Notified(h) = 1
  /\ \A k \in 1..Len(delivered) :
        \E h \in 1..Len(handles) :
          Behind(h, k) /\ (h \in startActive \/ ~handles[h].called)

\* C8: when a callback raised an error during a tick, every other subscriber
\* active in that tick has still been notified in it.
C8_ThrowDoesNotStopDelivery ==
  lastOp = "throw" =>
    \A h \in startActive : ~handles[h].called => Notified(h) >= 1

\* C9: the pending timer is armed with a delay equal to the minimum requested
\* interval over all active buckets.
C9_DelayIsMinimumInterval ==
  \A t \in timers :
    (t.id = nextTickId /\ EarliestPossibleUpdateMs(Eng) # Infinity)
      => (t.delay = EarliestPossibleUpdateMs(Eng) /\ nextTickMs = t.delay)

\* C10: when a tick has returned, a subscriber with a finite interval is
\* still subscribed and cleanup has not been called, the next tick is
\* pending: a timer is live without any further subscribe or unsubscribe.
C10_TickRearms ==
  (/\ lastOp = "return"
   /\ ~cleaned
   /\ \A k \in 1..Len(delivered) : delivered[k].op = "none"
   /\ \E h \in Active(handles) : handles[h].interval < Infinity)
    => timers # {}

TypeOK ==
  /\ pc \in {"idle", "dispatch"}
  /\ Len(handles) <= MaxSubscribes
  /\ timerSeq <= MaxTimerId
  /\ nextTickId \in {Undefined} \cup 1..MaxTimerId
\* C11: while no bucket is left (the last one was removed by an unsubscribe
\* and no subscribe followed), no timer is live.
C11_IdleWhenNoBucket ==
  (subscriptions = <<>> /\ Len(handles) > 0) => timers = {}

\* what the engine holds besides the log of calls
EngineState ==
  <<subscriptions, sets, handles, timers, timerSeq, nextTickId, nextTickMs,
    latestTime, clock>>

\* C12: getValue() returns the construction snapshot until the first tick and
\* then the snapshot of the most recent tick; it returns the same value as
\* long as no tick fires, whatever else is called; a getValue() call captures
\* nothing and arms or cancels no timer.
C12_GetValueIsLatestSnapshot ==
  [][/\ getValue' = clock'
     /\ (~(\E t \in timers : TimerFire(t))) => getValue' = getValue
     /\ GetValue => UNCHANGED EngineState]_vars

\* C12 witness: getValue() was called after the second tick, with a
\* subscribe, an unsubscribe or a cleanup behind it
C12_Witness ==
  /\ lastOp = "getValue"
  /\ getValue = 2
  /\ Len(handles) > 0

CleanupOp == [name |-> "cleanup", h |-> 0, cb |-> 0, interval |-> 0]

\* the step calls cleanup(), at top level or from a callback
CleanupStep == Cleanup \/ \E throws \in BOOLEAN : TickCallback(CleanupOp, throws)

C16_RepeatedUnsubscribeKeepsTimer ==
  [][\A h \in 1..Len(handles) :
       (handles[h].called /\ UnsubscribeStep(h))
         => (timers' = timers /\ nextTickId' = nextTickId)]_vars

\* the step calls subscribe, at top level or from a callback
SubscribeStep ==
  \E cb \in Callbacks, i \in Intervals :
    \/ Subscribe(cb, i)
    \/ \E throws \in BOOLEAN :
         TickCallback([name |-> "subscribe", h |-> 0, cb |-> cb, interval |-> i],
                      throws)

\* the timer bookkeeping a recomputation writes
TimerState == <<timers, timerSeq, nextTickId, nextTickMs>>

\* C17: a subscribe or unsubscribe call recomputes the schedule only when it
\* changes the set of buckets, and then exactly once: with the buckets
\* unchanged the timer state is untouched; with the buckets changed at most
\* one timer is armed, and one is armed when a finite bucket is left.
C17_RecomputeOnlyOnBucketChange ==
  [][(SubscribeStep \/ \E h \in 1..Len(handles) : UnsubscribeStep(h)) =>
       /\ Keys(subscriptions') = Keys(subscriptions) => UNCHANGED TimerState
       /\ Keys(subscriptions') # Keys(subscriptions) =>
            timerSeq' = IF EarliestPossibleUpdateMs(Eng') = Infinity
                          THEN timerSeq ELSE timerSeq + 1]_vars

\* C18: a recomputation cancels the pending timer: after a step that changed
\* the buckets or armed a timer, no timer armed before that step is live.
C18_RecomputeCancelsPending ==
  [][(Keys(subscriptions') # Keys(subscriptions) \/ timerSeq' # timerSeq)
       => \A t \in timers' : t.id > timerSeq]_vars

\* C19: while every active bucket has the unbounded interval, no timer is live.
C19_UnboundedArmsNothing ==
  Keys(subscriptions) = {Infinity} => timers = {}

\* C20: a timer is armed only by a subscribe or an unsubscribe call, and once
\* a tick has fired no timer is live until a bucket is created or destroyed.
C20_OnlySubscriptionChangesArm ==
  [][/\ timerSeq' # timerSeq =>
          (SubscribeStep \/ \E h \in 1..Len(handles) : UnsubscribeStep(h))
     /\ (\E t \in timers : TimerFire(t)) => timers' = {}
     /\ (timers = {} /\ Keys(subscriptions') = Keys(subscriptions))
          => timers' = {}]_vars

\* C14: a provider calls the engine's cleanup exactly once over its mounted
\* lifetime, at unmount and never earlier: no call has been made while the
\* provider is rendered or mounted (first render, effect, re-render), and
\* exactly one has been made once it is unmounted.
C14_CleanupOnUnmountOnly ==
  provider.cleanups = IF provider.phase = "unmounted" THEN 1 ELSE 0

\* C15: a consumer hook rendered with no engine attached (no enclosing
\* provider) throws while rendering and returns nothing: no snapshot, no
\* placeholder, no default value.
C15_HookWithoutProviderThrows ==
  (hook.name # "none" /\ ~hook.attached) =>
    (hook.threw /\ hook.value = Undefined)

\* a hook was rendered outside any provider, here while a provider with a
\* subscribed consumer is mounted elsewhere
C15_Witness ==
  /\ hook.name = "useTimeSync" /\ ~hook.attached /\ hook.threw
  /\ provider.phase = "mounted" /\ Len(handles) > 0

\* C21: every cancel the engine performs goes through the cancel primitive it
\* was constructed with, so it acts on the registry its timers were armed in:
\* whenever the engine drops or replaces the handle it recorded, the timer
\* that handle named is no longer live.
C21_CancelThroughOwnPrimitive ==
  [][(nextTickId # Undefined /\ nextTickId' # nextTickId)
       => \A t \in timers' : t.id # nextTickId]_vars

\* C22 as stated: cleanup() changes neither the snapshot, the buckets nor
\* their members, and a subscribe after cleanup at an interval that has no
\* bucket arms a timer.
C22_SubscribeAfterCleanupArms ==
  [][/\ CleanupStep => (getValue' = getValue /\ UNCHANGED <<subscriptions, sets>>)
     /\ (cleaned /\ SubscribeStep /\ Keys(subscriptions') # Keys(subscriptions))
          => timerSeq' = timerSeq + 1]_vars

\* C22 amended: cleanup() changes neither the snapshot, the buckets nor their
\* members; a subscribe after cleanup at an interval that has no bucket arms
\* a timer, and records it, exactly when some bucket (the new one included)
\* then has a finite interval, and arms nothing when all are unbounded.
C22_CleanupKeepsSubscriptions ==
  [][/\ CleanupStep => (getValue' = getValue /\ UNCHANGED <<subscriptions, sets>>)
     /\ (cleaned /\ SubscribeStep /\ Keys(subscriptions') # Keys(subscriptions))
          => IF Keys(subscriptions') = {Infinity}
               THEN timerSeq' = timerSeq /\ nextTickId' = Undefined
               ELSE /\ timerSeq' = timerSeq + 1
                    /\ nextTickId' = timerSeq'
                    /\ \E t \in timers' : t.id = timerSeq']_vars

\* C22 witness: with injected primitives the timer armed before cleanup() is
\* still in the registry beside the one the subscribe after cleanup() armed
C22_Witness ==
  /\ injected
  /\ lastOp = "subscribe"
  /\ Cardinality(timers) = 2
  /\ \E t \in timers : t.id = nextTickId
  /\ Len(subscriptions) = 2

\* the last invocation logged in the tick
LastDelivered == delivered[Len(delivered)]

\* C23: a callback that raises an error leaves the engine as a callback that
\* returns would: buckets, members and timer bookkeeping are what the
\* callback's own engine call (if any) made them, and untouched when it made
\* none; getValue() still returns the snapshot of that tick; the tick is over
\* and the failed delivery is not repeated.
C23_ThrowLeavesStateIntact ==
  [][\A op \in CallbackOps :
       TickCallback(op, TRUE) =>
         /\ subscriptions' = ApplyOp(Eng, op).subscriptions
         /\ sets' = ApplyOp(Eng, op).sets
         /\ <<timers', timerSeq', nextTickId', nextTickMs'>> =
              <<ApplyOp(Eng, op).timers, ApplyOp(Eng, op).timerSeq,
                ApplyOp(Eng, op).nextTickId, ApplyOp(Eng, op).nextTickMs>>
         /\ op.name = "none" => UNCHANGED EngineState
         /\ getValue' = newTime
         /\ pc' = "idle"
         /\ Len(delivered') = Len(delivered) + 1]_vars

\* C23 witness: a callback threw in a tick over two buckets while a second
\* timer was pending, and it had made no engine call
C23_Witness ==
  /\ lastOp = "throw"
  /\ LastDelivered.op = "none"
  /\ Len(subscriptions) = 2
  /\ timers # {}
  /\ getValue = 1

\* the buckets of the map that hold callback cb
BucketsOf(cb) ==
  {k \in 1..Len(subscriptions) : IndexOf(sets[subscriptions[k].set], cb) # 0}

\* C24: every callback is a member of at most one bucket, and no callback is
\* invoked more than once in a single tick.
C24_OneBucketPerCallback ==
  /\ \A cb \in Callbacks : Cardinality(BucketsOf(cb)) <= 1
  /\ \A j, k \in 1..Len(delivered) :
        delivered[j].cb = delivered[k].cb => j = k

\* C25: what a paused consumer reads through getValue(requestId, TRUE) is the
\* same after every step as before it, ticks included.
C25_PausedReadIsFrozen ==
  [][\A requestId \in Callbacks :
       getValueOf(requestId, TRUE)' = getValueOf(requestId, TRUE)]_vars

\* C26: #nextTickId is defined exactly when a timer armed by the engine is
\* live, and then it names the one live timer.
C26_HandleNamesLiveTimer ==
  IF nextTickId = Undefined
    THEN timers = {}
    ELSE \E t \in timers : t.id = nextTickId /\ timers = {t}

\* C27: a callback is invoked only while it has a live subscription: every
\* invocation, on any tick and at any point of a tick, goes to a callback
\* with a registration whose unsubscribe function has not been called.
C27_NoInvocationAfterUnsubscribe ==
  [][(pc = "dispatch" /\ Len(delivered') = Len(delivered) + 1) =>
       \E h \in Active(handles) :
         handles[h].callback = delivered'[Len(delivered')].cb]_vars

\* the callbacks invoked in the tick
Invoked == {delivered[k].cb : k \in 1..Len(delivered)}

\* C27 witness: in a tick that ran to its end a callback called the
\* unsubscribe function of another subscriber that was active when the tick
\* started, and that subscriber was not invoked in the tick
C27_Witness ==
  /\ lastOp = "return"
  /\ \E k \in 1..Len(delivered) :
        /\ delivered[k].op = "unsubscribe"
        /\ delivered[k].h \in startActive
        /\ handles[delivered[k].h].callback \notin Invoked

\* the registration created by the subscribe call of the k-th invocation:
\* registrations are numbered in the order of the subscribe calls
NewHandle(k) ==
  Len(handles)
    - Cardinality({j \in (k + 1)..Len(delivered) : delivered[j].op = "subscribe"})

AheadOfDispatch(h, k) ==
  \/ handles[h].set = delivered[k].set
  \/ handles[h].set = h

\* registration h is still subscribed: its callback is a member of its Set
\* and, for a bucket it created, that bucket is still in the map
StillMember(h) ==
  /\ ~handles[h].called
  /\ IndexOf(sets[handles[h].set], handles[h].callback) # 0
  /\ handles[h].set = h =>
       \E b \in 1..Len(subscriptions) : subscriptions[b].set = h

C29_RegistrationsAreIndependent ==
  [][\A h, g \in Active(handles) :
       (/\ h # g
        /\ handles[h].callback = handles[g].callback
        /\ handles[h].interval = handles[g].interval
        /\ handles[h].set = handles[g].set
        /\ UnsubscribeStep(h))
         => \E b \in 1..Len(subscriptions') :
              /\ subscriptions'[b].interval = handles[g].interval
              /\ IndexOf(sets'[subscriptions'[b].set], handles[g].callback) # 0]_vars

====
